---- MODULE Spec2Model ----
(***************************************************************************)
(* Model of src/main.cpp: the demo entry point that initialises FRED's    *)
(* Global::Simulation_Day / Global::Simulation_Days, reports four globals *)
(* on standard output and then walks a fixed day loop.                    *)
(*                                                                         *)
(* State: the four Global fields main touches, main's loop variable, the  *)
(* lines written to std::cout so far, main's position and its exit status.*)
(* One action per statement of main.                                       *)
(***************************************************************************)
EXTENDS Integers, Sequences, FiniteSets

VARIABLES pc, Simulation_Day, Simulation_Days, DAYS_PER_WEEK, ADULT_AGE,
          day, out, exit_status

vars == <<pc, Simulation_Day, Simulation_Days, DAYS_PER_WEEK, ADULT_AGE,
          day, out, exit_status>>

(* ---- bounds --------------------------------------------------------- *)

\* Global.h / Global.cc are not part of the sources: the values the two
\* mutable globals hold when main is entered are drawn from -MaxPreMain..MaxPreMain.
MaxPreMain == 1

\* The two constants of Global.h are drawn from 1..MaxHeaderConst.
MaxHeaderConst == 2

PreMainValues == (-MaxPreMain)..MaxPreMain

HeaderValues == 1..MaxHeaderConst

(* ---- program constants ---------------------------------------------- *)

\* main.cpp:12   Global::Simulation_Days = 10;
ConfiguredDays == 10

\* A loop bound one past the configured number of days.
LoopBoundOver == ConfiguredDays + 1

\* main.cpp:21   for(int day = 0; day < 5; day++)
LoopBound == 5

(* ---- standard output ------------------------------------------------ *)

\* One line of std::cout: the literal text and the integer streamed after it.
Line(text, vals) == [text |-> text, vals |-> vals]

StartingLine == Line("Starting FRED Simulation...", <<>>)

AccessibleLine == Line("FRED Global variables accessible:", <<>>)

SimulationDayLine(v) == Line("Simulation Day: ", <<v>>)

SimulationDaysLine(v) == Line("Simulation Days: ", <<v>>)

DaysPerWeekLine(v) == Line("Days per week: ", <<v>>)

AdultAgeLine(v) == Line("Adult age: ", <<v>>)

CompletedLine(d) == Line("Simulated day  completed.", <<d>>)

DemoCompletedLine == Line("FRED Integration Demo Completed.", <<>>)

(* ---- initial state -------------------------------------------------- *)

Init ==
    /\ pc = "L5"
    /\ Simulation_Day \in PreMainValues
    /\ Simulation_Days \in PreMainValues
    /\ DAYS_PER_WEEK \in HeaderValues
    /\ ADULT_AGE \in HeaderValues
    /\ day = 0
    /\ out = <<>>
    /\ exit_status = <<>>

(* ---- statements of main --------------------------------------------- *)

\* Variant of line 5 that falls through to the loop, skipping lines 11-18.
PrintStartingSkipInit ==
    /\ pc = "L5"
    /\ out' = Append(out, StartingLine)
    /\ pc' = "L21_init"
    /\ UNCHANGED <<Simulation_Day, Simulation_Days, DAYS_PER_WEEK, ADULT_AGE,
                   day, exit_status>>

\* main.cpp:5
PrintStarting ==
    /\ pc = "L5"
    /\ out' = Append(out, StartingLine)
    /\ pc' = "L11"
    /\ UNCHANGED <<Simulation_Day, Simulation_Days, DAYS_PER_WEEK, ADULT_AGE,
                   day, exit_status>>

\* main.cpp:11
InitSimulationDay ==
    /\ pc = "L11"
    /\ Simulation_Day' = 0
    /\ pc' = "L12"
    /\ UNCHANGED <<Simulation_Days, DAYS_PER_WEEK, ADULT_AGE, day, out,
                   exit_status>>

\* main.cpp:12
InitSimulationDays ==
    /\ pc = "L12"
    /\ Simulation_Days' = ConfiguredDays
    /\ pc' = "L14"
    /\ UNCHANGED <<Simulation_Day, DAYS_PER_WEEK, ADULT_AGE, day, out,
                   exit_status>>

\* main.cpp:14
PrintAccessible ==
    /\ pc = "L14"
    /\ out' = Append(out, AccessibleLine)
    /\ pc' = "L15"
    /\ UNCHANGED <<Simulation_Day, Simulation_Days, DAYS_PER_WEEK, ADULT_AGE,
                   day, exit_status>>

\* main.cpp:15
PrintSimulationDay ==
    /\ pc = "L15"
    /\ out' = Append(out, SimulationDayLine(Simulation_Day))
    /\ pc' = "L16"
    /\ UNCHANGED <<Simulation_Day, Simulation_Days, DAYS_PER_WEEK, ADULT_AGE,
                   day, exit_status>>

\* main.cpp:16
PrintSimulationDays ==
    /\ pc = "L16"
    /\ out' = Append(out, SimulationDaysLine(Simulation_Days))
    /\ pc' = "L17"
    /\ UNCHANGED <<Simulation_Day, Simulation_Days, DAYS_PER_WEEK, ADULT_AGE,
                   day, exit_status>>

\* main.cpp:17
PrintDaysPerWeek ==
    /\ pc = "L17"
    /\ out' = Append(out, DaysPerWeekLine(DAYS_PER_WEEK))
    /\ pc' = "L18"
    /\ UNCHANGED <<Simulation_Day, Simulation_Days, DAYS_PER_WEEK, ADULT_AGE,
                   day, exit_status>>

\* main.cpp:18
PrintAdultAge ==
    /\ pc = "L18"
    /\ out' = Append(out, AdultAgeLine(ADULT_AGE))
    /\ pc' = "L21_init"
    /\ UNCHANGED <<Simulation_Day, Simulation_Days, DAYS_PER_WEEK, ADULT_AGE,
                   day, exit_status>>

\* main.cpp:21   int day = 0
LoopInit ==
    /\ pc = "L21_init"
    /\ day' = 0
    /\ pc' = "L21_test"
    /\ UNCHANGED <<Simulation_Day, Simulation_Days, DAYS_PER_WEEK, ADULT_AGE,
                   out, exit_status>>

\* main.cpp:21   day < 5
LoopTest ==
    /\ pc = "L21_test"
    /\ pc' = IF day < LoopBound THEN "L22" ELSE "L26"
    /\ UNCHANGED <<Simulation_Day, Simulation_Days, DAYS_PER_WEEK, ADULT_AGE,
                   day, out, exit_status>>

\* Variants of line 22: write only on a matching day; advance past the day;
\* count down; write the wrong global; write an out-of-range value.
SetSimulationDayGuarded ==
    /\ pc = "L22"
    /\ Simulation_Day' = IF day = Simulation_Day THEN day ELSE Simulation_Day
    /\ pc' = "L23"
    /\ UNCHANGED <<Simulation_Days, DAYS_PER_WEEK, ADULT_AGE, day, out,
                   exit_status>>

SetSimulationDayAdvance ==
    /\ pc = "L22"
    /\ Simulation_Day' = day + 1
    /\ pc' = "L23"
    /\ UNCHANGED <<Simulation_Days, DAYS_PER_WEEK, ADULT_AGE, day, out,
                   exit_status>>

SetSimulationDayReversed ==
    /\ pc = "L22"
    /\ Simulation_Day' = LoopBound - 1 - day
    /\ pc' = "L23"
    /\ UNCHANGED <<Simulation_Days, DAYS_PER_WEEK, ADULT_AGE, day, out,
                   exit_status>>

SetSimulationDayWrongField ==
    /\ pc = "L22"
    /\ DAYS_PER_WEEK' = day
    /\ pc' = "L23"
    /\ UNCHANGED <<Simulation_Day, Simulation_Days, ADULT_AGE, day, out,
                   exit_status>>

SetSimulationDayShifted ==
    /\ pc = "L22"
    /\ Simulation_Day' = day + ConfiguredDays
    /\ pc' = "L23"
    /\ UNCHANGED <<Simulation_Days, DAYS_PER_WEEK, ADULT_AGE, day, out,
                   exit_status>>

\* main.cpp:22   Global::Simulation_Day = day;
SetSimulationDay ==
    /\ pc = "L22"
    /\ Simulation_Day' = day
    /\ pc' = "L23"
    /\ UNCHANGED <<Simulation_Days, DAYS_PER_WEEK, ADULT_AGE, day, out,
                   exit_status>>

\* main.cpp:23
PrintDayCompleted ==
    /\ pc = "L23"
    /\ out' = Append(out, CompletedLine(day))
    /\ pc' = "L21_incr"
    /\ UNCHANGED <<Simulation_Day, Simulation_Days, DAYS_PER_WEEK, ADULT_AGE,
                   day, exit_status>>

\* main.cpp:21   day++
LoopIncr ==
    /\ pc = "L21_incr"
    /\ day' = day + 1
    /\ pc' = "L21_test"
    /\ UNCHANGED <<Simulation_Day, Simulation_Days, DAYS_PER_WEEK, ADULT_AGE,
                   out, exit_status>>

\* main.cpp:26
PrintDemoCompleted ==
    /\ pc = "L26"
    /\ out' = Append(out, DemoCompletedLine)
    /\ pc' = "L28"
    /\ UNCHANGED <<Simulation_Day, Simulation_Days, DAYS_PER_WEEK, ADULT_AGE,
                   day, exit_status>>

\* main.cpp:28   return 0;
Return ==
    /\ pc = "L28"
    /\ exit_status' = <<0>>
    /\ pc' = "done"
    /\ UNCHANGED <<Simulation_Day, Simulation_Days, DAYS_PER_WEEK, ADULT_AGE,
                   day, out>>

Next ==
    \/ PrintStarting
    \/ InitSimulationDay
    \/ InitSimulationDays
    \/ PrintAccessible
    \/ PrintSimulationDay
    \/ PrintSimulationDays
    \/ PrintDaysPerWeek
    \/ PrintAdultAge
    \/ LoopInit
    \/ LoopTest
    \/ SetSimulationDay
    \/ PrintDayCompleted
    \/ LoopIncr
    \/ PrintDemoCompleted
    \/ Return

Spec == Init /\ [][Next]_vars

(* ---- observations used by the properties ---------------------------- *)

\* The days for which line 23 has reported completion, in output order.
RECURSIVE DaysRun(_)
DaysRun(o) ==
    IF o = <<>> THEN <<>>
    ELSE IF Head(o).text = CompletedLine(0).text
         THEN <<Head(o).vals[1]>> \o DaysRun(Tail(o))
         ELSE DaysRun(Tail(o))

\* The sequence 0, 1, ..., n-1.
DaysUpTo(n) == [i \in 1..n |-> i - 1]

\* Lines 11 and 12 have both executed.
InitializeDone == pc \notin {"L5", "L11", "L12"}

\* The one-time report of lines 14-18 as it reads after lines 11-12.
SetupReport ==
    <<StartingLine, AccessibleLine, SimulationDayLine(0),
      SimulationDaysLine(ConfiguredDays), DaysPerWeekLine(DAYS_PER_WEEK),
      AdultAgeLine(ADULT_AGE)>>

\* A per-day step (lines 22-23) is executing or has executed.
DayStepSeen == pc \in {"L22", "L23"} \/ DaysRun(out) # <<>>

(* ---- properties ----------------------------------------------------- *)

\* C1: when main has terminated, the registry's current day
\* (Simulation_Day) equals the configured total (Simulation_Days).
C1_FinalDayEqualsTotalDays ==
    pc = "done" => Simulation_Day = Simulation_Days

\* C2: in a complete run the per-day step has executed exactly once for
\* each day of [0, Simulation_Days), in increasing order.
C2_EveryConfiguredDayRunInOrder ==
    pc = "done" => DaysRun(out) = DaysUpTo(Simulation_Days)

\* C3: once lines 11 and 12 have executed, 0 <= Simulation_Day <=
\* Simulation_Days in every state, inside and after the day loop.
C3_DayWithinRange ==
    InitializeDone =>
        (0 <= Simulation_Day /\ Simulation_Day <= Simulation_Days)

C3_Witness ==
    pc = "L21_incr" /\ day = LoopBound - 1 /\ Simulation_Day = LoopBound - 1

C7_ConstantsNeverWritten ==
    [][DAYS_PER_WEEK' = DAYS_PER_WEEK /\ ADULT_AGE' = ADULT_AGE]_vars

C7_Witness ==
    /\ pc = "done"
    /\ DaysRun(out) = DaysUpTo(LoopBound)
    /\ out[5] = DaysPerWeekLine(DAYS_PER_WEEK)
    /\ out[6] = AdultAgeLine(ADULT_AGE)

\* All phases done: initialisation, every day of [0, Simulation_Days),
\* and the closing message.
AllPhasesCompleted ==
    /\ InitializeDone
    /\ \A d \in 0..(Simulation_Days - 1) :
           \E i \in 1..Len(out) : out[i] = CompletedLine(d)
    /\ \E i \in 1..Len(out) : out[i] = DemoCompletedLine

\* C8: main exits with status 0 exactly when all phases, every per-day
\* step for day 0..Simulation_Days-1 included, have completed.
C8_ExitZeroIffAllPhasesCompleted ==
    pc = "done" => (exit_status = <<0>> <=> AllPhasesCompleted)

C10_DayNonDecreasingTotalFixed ==
    [][InitializeDone =>
          (Simulation_Day' >= Simulation_Day
           /\ Simulation_Days' = Simulation_Days)]_vars

C10_Witness ==
    pc = "L23" /\ day = LoopBound - 1 /\ Simulation_Day = LoopBound - 1

====
